---- MODULE Spec2Model ----
(***************************************************************************)
(* A model of two parts of native-windows-gui:                             *)
(*   - controls/canvas/canvas_draw.rs : the CanvasDraw drawing session     *)
(*     over a Direct2D render target (BeginDraw ... EndDraw bracket);      *)
(*   - controls/check_box.rs : the CheckBox control, its accessors and     *)
(*     CheckBoxBuilder::build.                                             *)
(* The native layer (the render target, the BUTTON window class, the       *)
(* window_helper primitives and ControlBase::build_hwnd) is the            *)
(* environment of the code; it is modelled by the Native* definitions.     *)
(***************************************************************************)
EXTENDS Integers, Sequences, FiniteSets

\* ------------------------------------------------------------------ bounds
\* Number of CanvasDraw values that are created over one run.
MaxSessions == 3

\* --------------------------------------------------------------- constants
\* winapi::shared::winerror::S_OK
S_OK == 0
\* winapi::shared::winerror::D2DERR_RECREATE_TARGET, 0x8899000C as an i32
D2DERR_RECREATE_TARGET == -2003238900
\* The status codes the native EndDraw is taken to return: success, the
\* recreate-target code, D2DERR_WRONG_STATE, E_FAIL and S_FALSE.
HResults == {S_OK, D2DERR_RECREATE_TARGET, -2003238911, -2147467259, 1}

VARIABLES
    sessions,      \* CanvasDraw values: id -> "none" | "live" | "ended" | "dropped"
    bracketOpen,   \* the render target is between BeginDraw and EndDraw
    targetTransform, \* the transform the render target currently applies
    beginDraws,    \* id -> number of native BeginDraw calls made for the session
    endDraws,      \* id -> number of native EndDraw calls made for the session
    canvasCall     \* the last CanvasDraw operation: its result and native calls

canvasVars == <<sessions, bracketOpen, targetTransform, beginDraws, endDraws, canvasCall>>

VARIABLES
    handle,     \* CheckBox.handle: 0 is ControlHandle::NoHandle, n > 0 is Hwnd(n)
    created,    \* number of native windows created so far
    style,      \* GWL_STYLE of the window the control is bound to
    check,      \* check state the native button of that window holds (BST_*)
    hooked,     \* the raw event handler bound on the parent for that window, if any
    cbCall      \* the last CheckBox / CheckBoxBuilder operation

cbVars == <<handle, created, style, check, hooked, cbCall>>
vars == <<sessions, bracketOpen, targetTransform, beginDraws, endDraws, canvasCall,
          handle, created, style, check, hooked, cbCall>>

SessionIds == 1..MaxSessions

\* ------------------------------------------------------- CanvasDraw: data
\* Matrix3x2F{ matrix: [[1.0, 0.0], [0.0, 1.0], [0.0, 0.0]] }
IdentityMatrix == <<<<1, 0>>, <<0, 1>>, <<0, 0>>>>
\* The matrices callers pass to transform: a scaling and a translation.
Matrices == {<<<<2, 0>>, <<0, 2>>, <<0, 0>>>>, <<<<1, 0>>, <<0, 1>>, <<4, 5>>>>}
\* Option<&Matrix3x2F>
NoMatrix == <<>>
\* Rect values callers pass to the rectangle calls.
Rects == {[left |-> 0, top |-> 0, right |-> 3, bottom |-> 2]}
\* Text positions callers pass to draw_simple_text.
Positions == {<<0, 0>>, <<2, 3>>}
\* A brush argument either converts to a BaseBrush (try_into is Ok) or not.
Brushes == {"solid", "unbound"}
BrushTryIntoAlwaysOk(brush) == [ok |-> TRUE, base |-> brush]
BrushTryInto(brush) ==
    IF brush = "solid" THEN [ok |-> TRUE, base |-> "solid"] ELSE [ok |-> FALSE, base |-> "none"]

\* The native calls that draw on the target.
DrawingCalls == {"SetTransform", "Clear", "DrawRectangle", "FillRectangle", "DrawText"}

NativeCall(fn, arg) == [fn |-> fn, arg |-> arg, open |-> bracketOpen]
NoInner == [fn |-> "none"]
Call(op, s, outcome, natives, inner) ==
    [op |-> op, session |-> s, args |-> "none", outcome |-> outcome,
     natives |-> natives, inner |-> inner]
\* The same record with the arguments the caller passed.
CallWith(args, op, s, outcome, natives, inner) ==
    [Call(op, s, outcome, natives, inner) EXCEPT !.args = args]

\* ------------------------------------------------ native render target
\* ID2D1RenderTarget::BeginDraw: opens the bracket.
NativeBeginDraw == bracketOpen' = TRUE
\* ID2D1RenderTarget::EndDraw: closes the bracket and returns a status code.
NativeEndDraw == bracketOpen' = FALSE
\* ID2D1RenderTarget::SetTransform
NativeSetTransform(m) == targetTransform' = m

\* --------------------------------------------------- CanvasDraw: methods
Live(s) == sessions[s] = "live"
FreshSession(s) == sessions[s] = "none" /\ \A t \in SessionIds : t < s => sessions[t] # "none"

\* CanvasDraw::new takes a shared reference to the renderer: it is callable
\* whatever sessions on the renderer are alive.
CanvasDraw_new(s) ==
    /\ FreshSession(s)
    /\ NativeBeginDraw
    /\ sessions' = [sessions EXCEPT ![s] = "live"]
    /\ beginDraws' = [beginDraws EXCEPT ![s] = @ + 1]
    /\ canvasCall' = Call("new", s, "ok", <<NativeCall("BeginDraw", "none")>>, NoInner)
    /\ UNCHANGED <<targetTransform, endDraws>>
    /\ UNCHANGED cbVars

\* The match of end_draw on the status code.
EndDrawResultRecreateAsOther(hr) ==
    IF hr = S_OK THEN [tag |-> "Ok"] ELSE [tag |-> "Other", code |-> hr]
EndDrawResult(hr) ==
    IF hr = S_OK THEN [tag |-> "Ok"]
    ELSE IF hr = D2DERR_RECREATE_TARGET THEN [tag |-> "RecreateTarget"]
    ELSE [tag |-> "Other", code |-> hr]

\* end_draw(self): consumes the session.
CanvasDraw_end_draw(s, hr) ==
    /\ Live(s)
    /\ NativeEndDraw
    /\ sessions' = [sessions EXCEPT ![s] = "ended"]
    /\ endDraws' = [endDraws EXCEPT ![s] = @ + 1]
    /\ canvasCall' = [Call("end_draw", s, "ok", <<NativeCall("EndDraw", "none")>>, NoInner)
                        EXCEPT !.outcome = EndDrawResult(hr), !.inner = [fn |-> "EndDraw", code |-> hr]]
    /\ UNCHANGED <<targetTransform, beginDraws>>
    /\ UNCHANGED cbVars

\* CanvasDraw has no Drop implementation: a session that goes out of scope
\* (or is unwound by a panic) issues no native call.
CanvasDraw_drop(s) ==
    /\ Live(s)
    /\ sessions' = [sessions EXCEPT ![s] = "dropped"]
    /\ canvasCall' = Call("drop", s, "ok", <<>>, NoInner)
    /\ UNCHANGED <<bracketOpen, targetTransform, beginDraws, endDraws>>
    /\ UNCHANGED cbVars

CanvasDraw_size(s) ==
    /\ Live(s)
    /\ canvasCall' = Call("size", s, "ok", <<NativeCall("GetSize", "none")>>, NoInner)
    /\ UNCHANGED <<sessions, bracketOpen, targetTransform, beginDraws, endDraws>>
    /\ UNCHANGED cbVars

\* The match of transform on its Option argument: the matrix handed to
\* SetTransform.
TransformMatrixKeepOnNone(transform) ==
    IF transform = NoMatrix THEN targetTransform ELSE transform
TransformMatrix(transform) ==
    IF transform = NoMatrix THEN IdentityMatrix ELSE transform

CanvasDraw_transform(s, transform) ==
    /\ Live(s)
    /\ LET t == TransformMatrix(transform)
       IN /\ NativeSetTransform(t)
          /\ canvasCall' = CallWith(transform, "transform", s, "ok",
                                    <<NativeCall("SetTransform", t)>>, NoInner)
    /\ UNCHANGED <<sessions, bracketOpen, beginDraws, endDraws>>
    /\ UNCHANGED cbVars

CanvasDraw_clear(s) ==
    /\ Live(s)
    /\ canvasCall' = Call("clear", s, "ok", <<NativeCall("Clear", "color")>>, NoInner)
    /\ UNCHANGED <<sessions, bracketOpen, targetTransform, beginDraws, endDraws>>
    /\ UNCHANGED cbVars

CanvasDraw_draw_rectangle(s, rect, brush) ==
    /\ Live(s)
    /\ LET base == BrushTryInto(brush)
       IN canvasCall' =
            IF base.ok
            THEN CallWith([rect |-> rect, brush |-> brush], "draw_rectangle", s, "ok",
                          <<NativeCall("DrawRectangle", [rect |-> rect, brush |-> base.base])>>,
                          NoInner)
            ELSE CallWith([rect |-> rect, brush |-> brush], "draw_rectangle", s, "panic", <<>>, NoInner)
    /\ UNCHANGED <<sessions, bracketOpen, targetTransform, beginDraws, endDraws>>
    /\ UNCHANGED cbVars

CanvasDraw_fill_rectangle(s, rect, brush) ==
    /\ Live(s)
    /\ LET base == BrushTryInto(brush)
       IN canvasCall' =
            IF base.ok
            THEN CallWith([rect |-> rect, brush |-> brush], "fill_rectangle", s, "ok",
                          <<NativeCall("FillRectangle", [rect |-> rect, brush |-> base.base])>>,
                          NoInner)
            ELSE CallWith([rect |-> rect, brush |-> brush], "fill_rectangle", s, "panic", <<>>, NoInner)
    /\ UNCHANGED <<sessions, bracketOpen, targetTransform, beginDraws, endDraws>>
    /\ UNCHANGED cbVars

\* draw_text has an empty body: it issues no native call and does not even
\* convert the brush.
DrawTextNatives(area, brush, options, measure) == <<>>

CanvasDraw_draw_text(s, area, brush) ==
    /\ Live(s)
    /\ canvasCall' = CallWith([area |-> area, brush |-> brush], "draw_text", s, "ok",
                              DrawTextNatives(area, brush, "OPTIONS_NONE", "Natural"),
                              [fn |-> "draw_text", area |-> area, brush |-> brush,
                               options |-> "OPTIONS_NONE", measure |-> "Natural"])
    /\ UNCHANGED <<sessions, bracketOpen, targetTransform, beginDraws, endDraws>>
    /\ UNCHANGED cbVars

\* The layout box draw_simple_text computes from the position.
SimpleTextArea(pos) == [left |-> pos[1], top |-> pos[2], right |-> 1, bottom |-> 1]

CanvasDraw_draw_simple_text(s, pos, brush) ==
    /\ Live(s)
    /\ LET area == SimpleTextArea(pos)
       IN canvasCall' = CallWith([pos |-> pos, brush |-> brush], "draw_simple_text", s, "ok",
                                 DrawTextNatives(area, brush, "OPTIONS_NONE", "Natural"),
                                 [fn |-> "draw_text", area |-> area, brush |-> brush,
                                  options |-> "OPTIONS_NONE", measure |-> "Natural"])
    /\ UNCHANGED <<sessions, bracketOpen, targetTransform, beginDraws, endDraws>>
    /\ UNCHANGED cbVars

\* =========================================================== CheckBox
\* Number of native windows that are created over one run.
MaxWindows == 2

\* winapi::um::winuser style and button-state constants.
WS_VISIBLE == 268435456
WS_DISABLED == 134217728
WS_CHILD == 1073741824
BS_NOTIFY == 16384
BS_AUTOCHECKBOX == 3
BS_AUTO3STATE == 6
BST_UNCHECKED == 0
BST_CHECKED == 1
BST_INDETERMINATE == 2
WM_CTLCOLORSTATIC == 312
\* Messages a parent window receives: WM_CTLCOLORSTATIC, WM_CTLCOLORBTN (309)
\* and WM_COMMAND (273).
Messages == {WM_CTLCOLORSTATIC, 309, 273}
\* LPARAM values: the handles of the windows created, and 0.
ChildHandles == 0..MaxWindows

\* u32 bit operations. The operators work a hexadecimal digit at a time,
\* with the digits' results tabulated from the bit-by-bit definitions.
RECURSIVE BitAndBits(_, _)
BitAndBits(a, b) ==
    IF a = 0 \/ b = 0 THEN 0
    ELSE (a % 2) * (b % 2) + 2 * BitAndBits(a \div 2, b \div 2)
RECURSIVE BitOrBits(_, _)
BitOrBits(a, b) ==
    IF a = 0 THEN b
    ELSE IF b = 0 THEN a
    ELSE (IF a % 2 = 1 \/ b % 2 = 1 THEN 1 ELSE 0) + 2 * BitOrBits(a \div 2, b \div 2)
HexAnd == [a \in 0..15 |-> [b \in 0..15 |-> BitAndBits(a, b)]]
HexOr == [a \in 0..15 |-> [b \in 0..15 |-> BitOrBits(a, b)]]
RECURSIVE BitAnd(_, _)
BitAnd(a, b) ==
    IF a = 0 \/ b = 0 THEN 0
    ELSE HexAnd[a % 16][b % 16] + 16 * BitAnd(a \div 16, b \div 16)
RECURSIVE BitOr(_, _)
BitOr(a, b) ==
    IF a = 0 THEN b
    ELSE IF b = 0 THEN a
    ELSE HexOr[a % 16][b % 16] + 16 * BitOr(a \div 16, b \div 16)

\* CheckBoxState
CheckBoxStates == {"Checked", "Unchecked", "Indeterminate"}

\* Values a CheckBoxFlags can hold: combinations of the bits of VISIBLE,
\* DISABLED and TRISTATE (bitflags accepts every subset of the union of the
\* declared flags, so each of TRISTATE's two bits also occurs alone).
CheckBoxFlagBits ==
    {w + t : w \in {0, WS_VISIBLE, WS_VISIBLE + WS_DISABLED}, t \in {0, 2, 4, BS_AUTO3STATE}}
\* Option<CheckBoxFlags>
NoFlags == [some |-> FALSE, bits |-> 0]
SomeFlags(bits) == [some |-> TRUE, bits |-> bits]
FlagOptions == {NoFlags} \cup {SomeFlags(b) : b \in CheckBoxFlagBits}

\* ------------------------------------------------ native window layer
\* The button type of a style: its low four bits (BS_TYPEMASK).
NativeButtonType(st) == st % 16
\* Highest check state a button type holds: 3-state buttons hold
\* BST_INDETERMINATE, check boxes and radio buttons BST_CHECKED, others none.
NativeMaxCheck(st) ==
    IF NativeButtonType(st) \in {5, 6} THEN BST_INDETERMINATE
    ELSE IF NativeButtonType(st) \in {2, 3, 4, 9} THEN BST_CHECKED
    ELSE BST_UNCHECKED
\* wh::send_message(handle, BM_SETCHECK, w, 0): the check state afterwards.
NativeSetCheck(st, old, w) ==
    IF NativeMaxCheck(st) = BST_UNCHECKED THEN old
    ELSE IF w > NativeMaxCheck(st) THEN NativeMaxCheck(st) ELSE w
\* wh::send_message(handle, BM_GETCHECK, 0, 0)
NativeGetCheck(chk) == chk
\* wh::send_message(handle, BM_SETSTYLE, w, 1): replaces the button type.
NativeSetStyle(st, w) == (st - NativeButtonType(st)) + NativeButtonType(w)
\* wh::get_style(handle)
NativeGetStyle(st) == st
\* ControlBase::build_hwnd()...build(): the style of the created window.
NativeCreateStyle(forced, fl) == BitOr(forced, fl)

WinCall(fn, w) == [fn |-> fn, w |-> w]
CbCall(op, args, outcome, natives) ==
    [op |-> op, args |-> args, outcome |-> outcome, natives |-> natives, pre |-> handle]

\* ------------------------------------------------- CheckBox: methods
\* self.handle.blank()
blankNever == FALSE
blank == handle = 0

\* pub fn flags(&self) -> u32
flags == WS_VISIBLE
\* pub fn forced_flags(&self) -> u32
forced_flags == BitOr(BS_NOTIFY, WS_CHILD)

\* tristate(): style & BS_AUTO3STATE == BS_AUTO3STATE
tristate(st) == BitAnd(NativeGetStyle(st), BS_AUTO3STATE) = BS_AUTO3STATE

\* set_tristate: the style sent with BM_SETSTYLE.
TristateStyleSwapped(tri) == IF tri THEN BS_AUTOCHECKBOX ELSE BS_AUTO3STATE
TristateStyle(tri) == IF tri THEN BS_AUTO3STATE ELSE BS_AUTOCHECKBOX

\* check_state: the match on the BM_GETCHECK result.
check_state(chk) ==
    IF NativeGetCheck(chk) = BST_UNCHECKED THEN "Unchecked"
    ELSE IF NativeGetCheck(chk) = BST_CHECKED THEN "Checked"
    ELSE IF NativeGetCheck(chk) = BST_INDETERMINATE THEN "Indeterminate"
    ELSE "unreachable"

\* set_check_state: the match on the state.
BstOfIndeterminateAsChecked(state) ==
    IF state = "Unchecked" THEN BST_UNCHECKED ELSE BST_CHECKED
BstOf(state) ==
    IF state = "Unchecked" THEN BST_UNCHECKED
    ELSE IF state = "Checked" THEN BST_CHECKED
    ELSE BST_INDETERMINATE

CheckBox_tristate ==
    /\ cbCall' = IF blank THEN CbCall("tristate", "none", "panic", <<>>)
                 ELSE CbCall("tristate", "none", tristate(style), <<WinCall("get_style", 0)>>)
    /\ UNCHANGED <<handle, created, style, check, hooked>>
    /\ UNCHANGED canvasVars

CheckBox_set_tristate(tri) ==
    /\ IF blank
       THEN /\ cbCall' = CbCall("set_tristate", tri, "panic", <<>>)
            /\ style' = style
       ELSE /\ style' = NativeSetStyle(style, TristateStyle(tri))
            /\ cbCall' = CbCall("set_tristate", tri, "ok", <<WinCall("BM_SETSTYLE", TristateStyle(tri))>>)
    /\ UNCHANGED <<handle, created, check, hooked>>
    /\ UNCHANGED canvasVars

CheckBox_check_state ==
    /\ cbCall' = IF blank THEN CbCall("check_state", "none", "panic", <<>>)
                 ELSE CbCall("check_state", "none", check_state(check), <<WinCall("BM_GETCHECK", 0)>>)
    /\ UNCHANGED <<handle, created, style, check, hooked>>
    /\ UNCHANGED canvasVars

CheckBox_set_check_state(state) ==
    /\ IF blank
       THEN /\ cbCall' = CbCall("set_check_state", state, "panic", <<>>)
            /\ check' = check
       ELSE /\ check' = NativeSetCheck(style, check, BstOf(state))
            /\ cbCall' = CbCall("set_check_state", state, "ok", <<WinCall("BM_SETCHECK", BstOf(state))>>)
    /\ UNCHANGED <<handle, created, style, hooked>>
    /\ UNCHANGED canvasVars

\* The accessors that pass straight through to one window_helper primitive:
\* font, set_font, focus, set_focus, enabled, set_enabled, visible,
\* set_visible, size, set_size, position, set_position, text, set_text.
PassThrough ==
    [font |-> "get_window_font", set_font |-> "set_window_font",
     focus |-> "get_focus", set_focus |-> "set_focus",
     enabled |-> "get_window_enabled", set_enabled |-> "set_window_enabled",
     visible |-> "get_window_visibility", set_visible |-> "set_window_visibility",
     size |-> "get_window_size", set_size |-> "set_window_size",
     position |-> "get_window_position", set_position |-> "set_window_position",
     text |-> "get_window_text", set_text |-> "set_window_text"]

\* if self.handle.blank() { panic!(NOT_BOUND); } ... unsafe { wh::primitive(handle, ..) }
\* What these primitives read and write (font, focus, geometry, text) is
\* not part of the state of the model.
CheckBox_accessor(m) ==
    /\ cbCall' = IF blank THEN CbCall(m, "none", "panic", <<>>)
                 ELSE CbCall(m, "none", "ok", <<WinCall(PassThrough[m], 0)>>)
    /\ UNCHANGED <<handle, created, style, check, hooked>>
    /\ UNCHANGED canvasVars

\* The closure hook_background_color binds on the parent: the handle and
\* the brush it captures by move. NoHook: nothing is bound.
NoHook == [some |-> FALSE, handle |-> 0, brush |-> "none"]
Hook(h) == [some |-> TRUE, handle |-> h, brush |-> "solid_brush"]

\* move |_hwnd, msg, _w, l| { match msg { WM_CTLCOLORSTATIC => { let child = l
\* as HWND; if child == handle { return Some(brush as LRESULT); } }, _ => {} } None }
NoOverride == [some |-> FALSE, brush |-> "none"]
HookHandlerAnyChild(hook, msg, l) ==
    IF msg = WM_CTLCOLORSTATIC THEN [some |-> TRUE, brush |-> hook.brush] ELSE NoOverride
HookHandler(hook, msg, l) ==
    IF msg = WM_CTLCOLORSTATIC /\ l = hook.handle
    THEN [some |-> TRUE, brush |-> hook.brush]
    ELSE NoOverride

\* The native calls of hook_background_color after its guard.
HookCalls ==
    <<WinCall("get_window_parent", 0), WinCall("CreateSolidBrush", 0),
      WinCall("bind_raw_event_handler", 0)>>

\* hook_background_color is private to check_box.rs; besides build, only
\* code of that file can call it.
CheckBox_hook_background_color ==
    /\ IF blank
       THEN /\ cbCall' = CbCall("hook_background_color", "none", "panic", <<>>)
            /\ hooked' = hooked
       ELSE /\ hooked' = Hook(handle)
            /\ cbCall' = CbCall("hook_background_color", "none", "ok", HookCalls)
    /\ UNCHANGED <<handle, created, style, check>>
    /\ UNCHANGED canvasVars

\* The parent window receives a message while the handler is bound; l is
\* the LPARAM, for WM_CTLCOLORSTATIC the handle of the child to colour.
ParentMessage(msg, l) ==
    /\ hooked.some
    /\ cbCall' = CbCall("parent_message", [msg |-> msg, l |-> l],
                        HookHandler(hooked, msg, l), <<>>)
    /\ UNCHANGED <<handle, created, style, check, hooked>>
    /\ UNCHANGED canvasVars

\* ---------------------------------------------- CheckBoxBuilder::build
\* Option<ControlHandle> of the builder.
NoParent == [some |-> FALSE]
SomeParent == [some |-> TRUE]
ParentOptions == {NoParent, SomeParent}
\* Option<&Font> and Option<[u8; 3]> of the builder.
FontOptions == {"none", "font"}
ColorOptions == {"none", "color"}

\* let mut flags = self.flags.map(|f| f.bits()).unwrap_or(out.flags());
\* if flags & BS_AUTO3STATE == 0 { flags |= BS_AUTOCHECKBOX; }
BuildFlagsAlwaysCheckBox(fopt) ==
    BitOr(IF fopt.some THEN fopt.bits ELSE flags, BS_AUTOCHECKBOX)
BuildFlagsMergeDefaults(fopt) ==
    LET f == IF fopt.some THEN BitOr(fopt.bits, flags) ELSE flags
    IN IF BitAnd(f, BS_AUTO3STATE) = 0 THEN BitOr(f, BS_AUTOCHECKBOX) ELSE f
BuildFlags(fopt) ==
    LET f == IF fopt.some THEN fopt.bits ELSE flags
    IN IF BitAnd(f, BS_AUTO3STATE) = 0 THEN BitOr(f, BS_AUTOCHECKBOX) ELSE f

\* let parent = match self.parent { Some(p) => Ok(p), None => Err(ControlWithoutParent) }?;
BuildParentUnchecked(parent) == [ok |-> TRUE, err |-> "none"]
BuildParent(parent) ==
    IF parent.some THEN [ok |-> TRUE, err |-> "none"]
    ELSE [ok |-> FALSE, err |-> "ControlWithoutParent"]

\* ControlBase::build_hwnd()...build()?: the handle of the new window, or
\* the error the ? returns.
BuildHwndIgnoreError(createOk) == [ok |-> TRUE, err |-> "none"]
BuildHwnd(createOk) ==
    IF createOk THEN [ok |-> TRUE, err |-> "none"]
    ELSE [ok |-> FALSE, err |-> "CreateFailed"]

\* The creation request: .forced_flags(out.forced_flags()).flags(flags)
\* and whether the native creation succeeded.
CreateCall(forced, fl, ok) ==
    [fn |-> "create_window", w |-> fl, forced |-> forced, ok |-> ok]

\* The native calls of the steps that follow the window creation: set_font
\* if a font was given, hook_background_color if a color was given, then
\* set_check_state.
BuildDeferredCallsStateFirst(state, font, color) ==
    <<WinCall("BM_SETCHECK", BstOf(state))>>
    \o (IF font # "none" THEN <<WinCall("set_window_font", 0)>> ELSE <<>>)
    \o (IF color # "none" THEN HookCalls ELSE <<>>)
BuildDeferredCalls(state, font, color) ==
    (IF font # "none" THEN <<WinCall("set_window_font", 0)>> ELSE <<>>)
    \o (IF color # "none" THEN HookCalls ELSE <<>>)
    \o <<WinCall("BM_SETCHECK", BstOf(state))>>

\* build(self, out: &mut CheckBox). createOk is the outcome of the native
\* window creation; it is read only when a parent was given. The call
\* record keeps the builder fields the call went through: flags and parent
\* always, font, background_color and check_state once the window exists.
CheckBoxBuilder_build(fopt, state, font, color, parent, createOk) ==
    LET args == [flags |-> fopt, parent |-> parent]
        fl == BuildFlags(fopt)
        create == CreateCall(forced_flags, fl, createOk)
    IN /\ ~parent.some => createOk
       /\ IF ~BuildParent(parent).ok
          THEN /\ cbCall' = CbCall("build", args, BuildParent(parent).err, <<>>)
               /\ UNCHANGED <<handle, created, style, check, hooked>>
          ELSE IF ~BuildHwnd(createOk).ok
          THEN /\ cbCall' = CbCall("build", args, BuildHwnd(createOk).err, <<create>>)
               /\ UNCHANGED <<handle, created, style, check, hooked>>
          ELSE /\ created < MaxWindows
               /\ created' = created + 1
               /\ handle' = created + 1
               /\ style' = NativeCreateStyle(forced_flags, fl)
               /\ check' = NativeSetCheck(style', BST_UNCHECKED, BstOf(state))
               /\ hooked' = IF color # "none" THEN Hook(created + 1) ELSE NoHook
               /\ cbCall' = CbCall("build",
                                   [flags |-> fopt, parent |-> parent, font |-> font,
                                    background_color |-> color, check_state |-> state],
                                   "Ok",
                                   <<create>> \o BuildDeferredCalls(state, font, color))
       /\ UNCHANGED canvasVars

\* ------------------------------------------------------ specifications
Init ==
    /\ sessions = [s \in SessionIds |-> "none"]
    /\ bracketOpen = FALSE
    /\ targetTransform = IdentityMatrix
    /\ beginDraws = [s \in SessionIds |-> 0]
    /\ endDraws = [s \in SessionIds |-> 0]
    /\ canvasCall = Call("none", 0, "ok", <<>>, NoInner)
    /\ handle = 0
    /\ created = 0
    /\ style = 0
    /\ check = BST_UNCHECKED
    /\ hooked = NoHook
    /\ cbCall = [op |-> "none", args |-> "none", outcome |-> "ok", natives |-> <<>>, pre |-> 0]

\* The drawing sessions of one renderer.
CanvasNext ==
    \/ \E s \in SessionIds : CanvasDraw_new(s)
    \/ \E s \in SessionIds, hr \in HResults : CanvasDraw_end_draw(s, hr)
    \/ \E s \in SessionIds : CanvasDraw_drop(s)
    \/ \E s \in SessionIds : CanvasDraw_size(s)
    \/ \E s \in SessionIds, m \in Matrices \cup {NoMatrix} : CanvasDraw_transform(s, m)
    \/ \E s \in SessionIds : CanvasDraw_clear(s)
    \/ \E s \in SessionIds, r \in Rects, b \in Brushes : CanvasDraw_draw_rectangle(s, r, b)
    \/ \E s \in SessionIds, r \in Rects, b \in Brushes : CanvasDraw_fill_rectangle(s, r, b)
    \/ \E s \in SessionIds, r \in Rects, b \in Brushes : CanvasDraw_draw_text(s, r, b)
    \/ \E s \in SessionIds, p \in Positions, b \in Brushes : CanvasDraw_draw_simple_text(s, p, b)

\* One CheckBox value and the builders applied to it.
CheckBoxNext ==
    \/ \E fopt \in FlagOptions, state \in CheckBoxStates, font \in FontOptions,
          color \in ColorOptions, parent \in ParentOptions, createOk \in BOOLEAN :
            CheckBoxBuilder_build(fopt, state, font, color, parent, createOk)
    \/ CheckBox_tristate
    \/ \E tri \in BOOLEAN : CheckBox_set_tristate(tri)
    \/ CheckBox_check_state
    \/ \E state \in CheckBoxStates : CheckBox_set_check_state(state)
    \/ \E m \in DOMAIN PassThrough : CheckBox_accessor(m)
    \/ CheckBox_hook_background_color
    \/ \E msg \in Messages, l \in ChildHandles : ParentMessage(msg, l)

CanvasSpec == Init /\ [][CanvasNext]_vars
CheckBoxSpec == Init /\ [][CheckBoxNext]_vars

Next == CanvasNext \/ CheckBoxNext
Spec == Init /\ [][Next]_vars

\* ============================================================== claims
\* C1: end_draw maps the status code of the native EndDraw totally and
\* exclusively: S_OK gives Ok(()), D2DERR_RECREATE_TARGET gives
\* Err(RecreateTarget) (never Other), every other code e gives Err(Other(e))
\* carrying e unchanged.
C1_EndDrawMapping ==
    canvasCall.op = "end_draw" =>
        LET hr == canvasCall.inner.code
            r == canvasCall.outcome
        IN /\ hr = S_OK => r = [tag |-> "Ok"]
           /\ hr = D2DERR_RECREATE_TARGET => r = [tag |-> "RecreateTarget"]
           /\ hr \notin {S_OK, D2DERR_RECREATE_TARGET} => r = [tag |-> "Other", code |-> hr]
\* An end_draw whose native EndDraw returned the recreate-target code.
C1_Witness ==
    /\ canvasCall.op = "end_draw"
    /\ canvasCall.inner.code = D2DERR_RECREATE_TARGET
    /\ canvasCall.outcome.tag = "RecreateTarget"

\* C2: every native drawing call (SetTransform, Clear, DrawRectangle,
\* FillRectangle, draw-text) is issued while the bracket of the target is
\* open, whatever the sequence of session operations.
C2_DrawsInsideBracket ==
    \A i \in DOMAIN canvasCall.natives :
        canvasCall.natives[i].fn \in DrawingCalls => canvasCall.natives[i].open

\* C3: every session that was begun is ended by exactly one native EndDraw:
\* never two, and a session that no longer exists has had its EndDraw.
C3_ExactlyOneEndDraw ==
    \A s \in SessionIds :
        /\ endDraws[s] <= 1
        /\ sessions[s] \in {"ended", "dropped"} => endDraws[s] = 1

\* C4: at most one live session exists per renderer, and BeginDraw is never
\* issued on a target whose bracket is already open.
C4_AtMostOneLiveSession ==
    /\ Cardinality({s \in SessionIds : Live(s)}) <= 1
    /\ \A i \in DOMAIN canvasCall.natives :
           canvasCall.natives[i].fn = "BeginDraw" => ~canvasCall.natives[i].open

\* C5: a build without a parent returns Err(ControlWithoutParent), makes no
\* native call (no window creation, no set-font, no hook, no set-check) and
\* leaves the handle and the native state as they were.
C5_NoParentNoCreation ==
    [][(cbCall'.op = "build" /\ ~cbCall'.args.parent.some) =>
          /\ cbCall'.outcome = "ControlWithoutParent"
          /\ cbCall'.natives = <<>>
          /\ UNCHANGED <<handle, created, style, check, hooked>>]_vars
\* A build without a parent on an unbound CheckBox.
C5_Witness ==
    /\ cbCall.op = "build"
    /\ ~cbCall.args.parent.some
    /\ cbCall.outcome = "ControlWithoutParent"
    /\ handle = 0

\* C6: the flags build passes to the native window creation have exactly
\* one of BS_AUTO3STATE and BS_AUTOCHECKBOX set, for any caller flags.
HasStyle(w, mask) == BitAnd(w, mask) = mask
C6_ExactlyOneCheckStyle ==
    \A i \in DOMAIN cbCall.natives :
        cbCall.natives[i].fn = "create_window" =>
            HasStyle(cbCall.natives[i].w, BS_AUTO3STATE)
                # HasStyle(cbCall.natives[i].w, BS_AUTOCHECKBOX)

\* C7: on a bound tristate checkbox, set_check_state(s) followed at once by
\* check_state() returns s, for each of the three states.
C7_SetThenGetCheckState ==
    (cbCall.op = "set_check_state" /\ cbCall.outcome = "ok" /\ tristate(style)) =>
        check_state(check) = cbCall.args
\* set_check_state(Indeterminate) has just run on a bound tristate checkbox.
C7_Witness ==
    /\ cbCall.op = "set_check_state"
    /\ cbCall.outcome = "ok"
    /\ cbCall.args = "Indeterminate"
    /\ tristate(style)
    /\ check_state(check) = "Indeterminate"

\* C8: whenever tristate() is false on a bound checkbox, check_state() is
\* not Indeterminate.
C8_NoIndeterminateWithoutTristate ==
    (handle # 0 /\ ~tristate(style)) => check_state(check) # "Indeterminate"

\* C9: on a bound checkbox, set_tristate(b) followed at once by tristate()
\* returns b, for b true and b false.
C9_SetThenGetTristate ==
    (cbCall.op = "set_tristate" /\ cbCall.outcome = "ok") =>
        tristate(style) = cbCall.args
\* set_tristate(false) has just run on a bound checkbox.
C9_Witness ==
    /\ cbCall.op = "set_tristate"
    /\ cbCall.outcome = "ok"
    /\ cbCall.args = FALSE
    /\ ~tristate(style)

\* C10: once the handle is bound to a native window, no operation resets it
\* or binds it to another window.
C10_HandleNeverRebound ==
    cbCall.pre # 0 => handle = cbCall.pre

\* C11: every accessor or mutator of CheckBox, called while the handle is
\* unbound, panics without a native call and changes no state.
C11_UnboundAccessorsPanic ==
    [][(handle = 0 /\ cbCall'.op \in
            {"tristate", "set_tristate", "check_state", "set_check_state", "font",
             "set_font", "focus", "set_focus", "enabled", "set_enabled", "visible",
             "set_visible", "size", "set_size", "position", "set_position", "text",
             "set_text", "hook_background_color"})
        => /\ cbCall'.natives = <<>>
           /\ cbCall'.outcome = "panic"
           /\ UNCHANGED <<handle, created, style, check, hooked>>]_vars
\* An unbound CheckBox whose set_text was called.
C11_Witness == cbCall.op = "set_text" /\ cbCall.pre = 0 /\ cbCall.outcome = "panic"

\* C12: a successful build issues its native calls in the order: create
\* the window, set the font if one was given, install the background hook
\* if a color was given, set the check state; the handle is bound by then.
C12_BuildStepOrder ==
    (cbCall.op = "build" /\ cbCall.outcome = "Ok") =>
        /\ handle # 0
        /\ [i \in 1..Len(cbCall.natives) |-> cbCall.natives[i].fn] =
              <<"create_window">>
              \o (IF cbCall.args.font = "none" THEN <<>> ELSE <<"set_window_font">>)
              \o (IF cbCall.args.background_color = "none" THEN <<>>
                  ELSE <<"get_window_parent", "CreateSolidBrush", "bind_raw_event_handler">>)
              \o <<"BM_SETCHECK">>
\* A successful build with a font and a color.
C12_Witness ==
    /\ cbCall.op = "build" /\ cbCall.outcome = "Ok"
    /\ cbCall.args.font = "font" /\ cbCall.args.background_color = "color"

\* C13: after a successful build with the TRISTATE flag and the initial
\* state Indeterminate, check_state() is Indeterminate and tristate() is true.
C13_TristateIndeterminateBuild ==
    (/\ cbCall.op = "build" /\ cbCall.outcome = "Ok"
     /\ cbCall.args.flags.some
     /\ BitAnd(cbCall.args.flags.bits, BS_AUTO3STATE) = BS_AUTO3STATE
     /\ cbCall.args.check_state = "Indeterminate")
        => check_state(check) = "Indeterminate" /\ tristate(style)
\* Such a build has happened.
C13_Witness ==
    /\ cbCall.op = "build" /\ cbCall.outcome = "Ok"
    /\ cbCall.args.flags = SomeFlags(WS_VISIBLE + BS_AUTO3STATE)
    /\ cbCall.args.check_state = "Indeterminate"
    /\ check = BST_INDETERMINATE

\* C14: draw_rectangle and fill_rectangle with a brush that does not
\* convert panic with no native call and leave the bracket and the target
\* as they were; with a brush that converts they issue exactly one native
\* call, with the converted brush.
C14_BrushConversion ==
    [][canvasCall'.op \in {"draw_rectangle", "fill_rectangle"} =>
        IF canvasCall'.args.brush = "unbound"
        THEN /\ canvasCall'.outcome = "panic"
             /\ canvasCall'.natives = <<>>
             /\ UNCHANGED <<bracketOpen, targetTransform>>
        ELSE /\ canvasCall'.outcome = "ok"
             /\ Len(canvasCall'.natives) = 1
             /\ canvasCall'.natives[1].fn =
                    (IF canvasCall'.op = "draw_rectangle" THEN "DrawRectangle"
                     ELSE "FillRectangle")
             /\ canvasCall'.natives[1].arg =
                    [rect |-> canvasCall'.args.rect, brush |-> "solid"]]_vars
\* A fill_rectangle whose brush did not convert.
C14_Witness ==
    /\ canvasCall.op = "fill_rectangle" /\ canvasCall.args.brush = "unbound"
    /\ canvasCall.outcome = "panic"

\* C15: transform(None) sets the target's transform to the identity
\* matrix, transform(Some(m)) sets it to m, and no other call changes it.
C15_TransformSetsAndPersists ==
    [][IF canvasCall'.op = "transform"
       THEN targetTransform' =
                (IF canvasCall'.args = <<>> THEN <<<<1, 0>>, <<0, 1>>, <<0, 0>>>>
                 ELSE canvasCall'.args)
       ELSE targetTransform' = targetTransform]_vars
\* A drawing call made under a transform set earlier, other than the identity.
C15_Witness ==
    /\ canvasCall.op = "fill_rectangle" /\ canvasCall.outcome = "ok"
    /\ targetTransform = <<<<1, 0>>, <<0, 1>>, <<4, 5>>>>

\* C16: draw_text, and so draw_simple_text, issues a native draw-text call.
C16_DrawTextIsNative ==
    canvasCall.op \in {"draw_text", "draw_simple_text"} =>
        \E i \in 1..Len(canvasCall.natives) : canvasCall.natives[i].fn = "DrawText"

\* C17: draw_simple_text hands draw_text a box anchored at the position and
\* 1 by 1 in size, with OPTIONS_NONE, Natural and the caller's brush.
C17_SimpleTextBox ==
    canvasCall.op = "draw_simple_text" =>
        /\ canvasCall.inner.fn = "draw_text"
        /\ canvasCall.inner.area.left = canvasCall.args.pos[1]
        /\ canvasCall.inner.area.top = canvasCall.args.pos[2]
        /\ canvasCall.inner.area.right - canvasCall.inner.area.left = 1
        /\ canvasCall.inner.area.bottom - canvasCall.inner.area.top = 1
        /\ canvasCall.inner.options = "OPTIONS_NONE"
        /\ canvasCall.inner.measure = "Natural"
        /\ canvasCall.inner.brush = canvasCall.args.brush

\* C18: a build whose native window creation failed returns that error,
\* makes no call after the creation request and leaves the CheckBox as it was.
C18_CreateFailureLeavesNoTrace ==
    [][(/\ cbCall'.op = "build"
        /\ cbCall'.natives # <<>>
        /\ ~cbCall'.natives[1].ok)
        => /\ cbCall'.outcome = "CreateFailed"
           /\ Len(cbCall'.natives) = 1
           /\ UNCHANGED <<handle, created, style, check, hooked>>]_vars
\* A failed creation on a CheckBox that was already bound and hooked.
C18_Witness ==
    /\ cbCall.op = "build" /\ cbCall.outcome = "CreateFailed"
    /\ cbCall.args.parent.some
    /\ handle # 0 /\ hooked.some

\* C19: the handler bound on the parent returns the brush for a
\* WM_CTLCOLORSTATIC whose child is this control, the same brush each time,
\* and no override for any other message or child.
C19_HookAnswersOnlyOwnColorMessage ==
    [][cbCall'.op = "parent_message" =>
        /\ cbCall'.outcome =
              (IF cbCall'.args.msg = 312 /\ cbCall'.args.l = handle
               THEN [some |-> TRUE, brush |-> hooked.brush]
               ELSE [some |-> FALSE, brush |-> "none"])
        /\ hooked' = hooked]_vars
\* The parent received WM_CTLCOLORSTATIC for another child.
C19_Witness ==
    /\ cbCall.op = "parent_message"
    /\ cbCall.args.msg = WM_CTLCOLORSTATIC
    /\ cbCall.args.l # handle /\ cbCall.args.l # 0
    /\ ~cbCall.outcome.some

\* C20: the flags of the creation request are the caller's when given and
\* WS_VISIBLE only when none were given (the button type build adds to
\* them aside), and the forced flags are BS_NOTIFY | WS_CHILD in every build.
C20_FlagsNotMergedWithDefaults ==
    (cbCall.op = "build" /\ cbCall.natives # <<>>) =>
        LET base == IF cbCall.args.flags.some THEN cbCall.args.flags.bits ELSE 268435456
        IN /\ cbCall.natives[1].fn = "create_window"
           /\ cbCall.natives[1].w \in {base, BitOr(base, 3)}
           /\ cbCall.natives[1].forced = 16384 + 1073741824
\* A control created from caller flags without VISIBLE: it is not visible.
C20_Witness ==
    /\ cbCall.op = "build" /\ cbCall.outcome = "Ok"
    /\ cbCall.args.flags = SomeFlags(BS_AUTO3STATE)
    /\ BitAnd(style, WS_VISIBLE) = 0

====
